---- MODULE Spec2Model ----
(***************************************************************************)
(* Model of the fundamentals service: the ingestion of financial           *)
(* statements and of OHLCV bars into the relational store                  *)
(* (src/src/services/financial_data.py), the ratio calculator              *)
(* (src/src/services/analysis.py) and the earnings endpoint                *)
(* (src/src/api/v1/endpoints/data.py).                                     *)
(*                                                                         *)
(* Conventions.  A table is a bag of rows: the surrogate "id" column only  *)
(* tells rows apart, so it is the multiplicity of the row in the bag.      *)
(* Python None / JSON null / NaN is the empty tuple.  A line-item value of *)
(* a JSON payload is <<n>>; a computed ratio is the exact rational         *)
(* <<num, den>> in lowest terms with den > 0 (floating point is modelled   *)
(* by exact rational arithmetic).                                          *)
(***************************************************************************)
EXTENDS Integers, Sequences, FiniteSets, Bags, TLC

VARIABLES
    statements,   \* committed rows of table financial_statements (a bag)
    fetched,      \* outcome of the last fetch_and_store_statements call
    analysis,     \* outcome of the last calculate_financial_ratios(db, ticker) call
    ohlcv,        \* committed rows of table ohlcv_data (a bag)
    req,          \* the get_ohlcv requests in flight, one per HTTP worker
    latest,       \* inputs of the ratio computation: two payloads and a market cap
    ratios,       \* what the ratio computation returned for `latest`
    earnings      \* the earnings endpoint's last request and response

vars == <<statements, fetched, analysis, ohlcv, req, latest, ratios, earnings>>

None == <<>>

\* ticker.upper()
Upper(ticker) ==
    CASE ticker = "aapl" -> "AAPL"
      [] ticker = "msft" -> "MSFT"
      [] OTHER -> ticker

(***************************************************************************)
(* Exact rationals                                                         *)
(***************************************************************************)
Abs(n) == IF n < 0 THEN -n ELSE n

RECURSIVE Gcd(_, _)
Gcd(a, b) == IF b = 0 THEN a ELSE Gcd(b, a % b)

\* What a division by zero leaves in place of a number: Python raises
\* ZeroDivisionError, and the value stands for the raise until the handler
ZeroDivisionError == <<0, 0>>

\* n / d in lowest terms with a positive denominator; raises for d = 0
Rat(n, d) ==
    IF d = 0 THEN ZeroDivisionError
    ELSE LET g == Gcd(Abs(n), Abs(d))
             s == IF d < 0 THEN -1 ELSE 1
         IN  <<(s * n) \div g, (s * d) \div g>>

RAdd(a, b) ==
    IF a[2] = 0 \/ b[2] = 0 THEN ZeroDivisionError
    ELSE Rat(a[1] * b[2] + b[1] * a[2], a[2] * b[2])

RMul(a, b) ==
    IF a[2] = 0 \/ b[2] = 0 THEN ZeroDivisionError
    ELSE Rat(a[1] * b[1], a[2] * b[2])

\* q rounded to the nearest multiple of 1/scale is shown/scale
RoundsTo(q, shown, scale) ==
    q # None /\ q[2] > 0 /\ 2 * Abs(q[1] * scale - shown * q[2]) <= q[2]

(***************************************************************************)
(* Ratio calculator: src/src/services/analysis.py                          *)
(***************************************************************************)

\* safe_get(series, keys, default=0): first key whose value is present and
\* not null; its value; 0 when there is none
RECURSIVE safe_get(_, _)
safe_get(series, keys) ==
    IF keys = <<>> THEN 0
    ELSE LET key   == Head(keys)
             value == IF key \in DOMAIN series THEN series[key] ELSE None
         IN  IF value # None THEN value[1] ELSE safe_get(series, Tail(keys))

NetIncomeKeys == <<"Net Income", "NetIncome", "Net Income Common Stockholders">>
BookValueKeys == <<"Stockholders Equity", "StockholdersEquity",
                   "Total Stockholders Equity", "Total Equity">>
TotalAssetsKeys == <<"Total Assets", "TotalAssets">>
CurrentAssetsKeys == <<"Current Assets", "CurrentAssets", "Total Current Assets">>
CurrentLiabilitiesKeys == <<"Current Liabilities", "CurrentLiabilities",
                            "Total Current Liabilities">>
RetainedEarningsKeys == <<"Retained Earnings", "RetainedEarnings">>
EbitKeys == <<"EBIT", "Operating Income", "OperatingIncome">>
InterestExpenseKeys == <<"Interest Expense", "InterestExpense",
                         "Interest Expense Non Operating">>
TaxProvisionKeys == <<"Tax Provision", "TaxProvision", "Income Tax Expense">>
TotalLiabilitiesKeys == <<"Total Liabilities Net Minority Interest",
                          "TotalLiabilitiesNetMinorityInterest",
                          "Total Liabilities", "TotalLiabilities">>
TotalRevenueKeys == <<"Total Revenue", "TotalRevenue", "Revenue">>

PERatio_NoCapGuard(market_cap, net_income) ==
    IF net_income # 0 THEN Rat(market_cap, net_income) ELSE None

\* pe_ratio = market_cap / net_income if net_income and market_cap else None
PERatio(market_cap, net_income) ==
    IF net_income # 0 /\ market_cap # 0 THEN Rat(market_cap, net_income) ELSE None

\* pb_ratio = market_cap / book_value if book_value and market_cap else None
PBRatio(market_cap, book_value) ==
    IF book_value # 0 /\ market_cap # 0 THEN Rat(market_cap, book_value) ELSE None

\* roe = (net_income / book_value) * 100 if book_value and net_income else None
ROE(net_income, book_value) ==
    IF book_value # 0 /\ net_income # 0 THEN Rat(net_income * 100, book_value) ELSE None

\* working_capital = current_assets - current_liabilities
\*                   if current_assets and current_liabilities else 0
WorkingCapital(current_assets, current_liabilities) ==
    IF current_assets # 0 /\ current_liabilities # 0
    THEN current_assets - current_liabilities
    ELSE 0

\* if not ebit: ebit = net_income + abs(interest_expense) + tax_provision
\*                     if net_income else 0
Ebit(income_statement, net_income) ==
    LET ebit == safe_get(income_statement, EbitKeys)
    IN  IF ebit # 0 THEN ebit
        ELSE LET interest_expense == safe_get(income_statement, InterestExpenseKeys)
                 tax_provision    == safe_get(income_statement, TaxProvisionKeys)
             IN  IF net_income # 0
                 THEN net_income + Abs(interest_expense) + tax_provision
                 ELSE 0

TermD_Inverted(market_cap, total_liabilities) ==
    IF market_cap # 0 THEN Rat(total_liabilities, market_cap) ELSE <<0, 1>>

\* D = market_cap / total_liabilities if total_liabilities else 0
TermD(market_cap, total_liabilities) ==
    IF total_liabilities # 0 THEN Rat(market_cap, total_liabilities) ELSE <<0, 1>>

\* z_score = (1.2 * A) + (1.4 * B) + (3.3 * C) + (0.6 * D) + (1.0 * E)
ZTerms(total_assets, working_capital, retained_earnings, ebit, market_cap, total_liabilities, total_revenue) ==
    LET A == Rat(working_capital, total_assets)
        B == Rat(retained_earnings, total_assets)
        C == Rat(ebit, total_assets)
        D == TermD(market_cap, total_liabilities)
        E == Rat(total_revenue, total_assets)
    IN  RAdd(RAdd(RAdd(RAdd(RMul(<<12, 10>>, A), RMul(<<14, 10>>, B)),
             RMul(<<33, 10>>, C)), RMul(<<6, 10>>, D)), RMul(<<10, 10>>, E))

ZScore_AnyNonzeroAssets(total_assets, working_capital, retained_earnings, ebit, market_cap, total_liabilities, total_revenue) ==
    IF total_assets # 0
    THEN ZTerms(total_assets, working_capital, retained_earnings, ebit,
                market_cap, total_liabilities, total_revenue)
    ELSE None

\* if total_assets > 0: A .. E and z_score; else: z_score = None
ZScore(total_assets, working_capital, retained_earnings, ebit, market_cap, total_liabilities, total_revenue) ==
    IF total_assets > 0
    THEN ZTerms(total_assets, working_capital, retained_earnings, ebit,
                market_cap, total_liabilities, total_revenue)
    ELSE None

\* The statements of calculate_financial_ratios between the two lookups and
\* the handlers: the mapping built by its return statement
ComputeRatios(balance_sheet, income_statement, market_cap) ==
    LET net_income   == safe_get(income_statement, NetIncomeKeys)
        book_value   == safe_get(balance_sheet, BookValueKeys)
        total_assets == safe_get(balance_sheet, TotalAssetsKeys)
        current_assets      == safe_get(balance_sheet, CurrentAssetsKeys)
        current_liabilities == safe_get(balance_sheet, CurrentLiabilitiesKeys)
        working_capital   == WorkingCapital(current_assets, current_liabilities)
        retained_earnings == safe_get(balance_sheet, RetainedEarningsKeys)
        ebit              == Ebit(income_statement, net_income)
        total_liabilities == safe_get(balance_sheet, TotalLiabilitiesKeys)
        total_revenue     == safe_get(income_statement, TotalRevenueKeys)
    IN  [p_e_ratio |-> PERatio(market_cap, net_income),
         p_b_ratio |-> PBRatio(market_cap, book_value),
         return_on_equity_percent |-> ROE(net_income, book_value),
         altman_z_score |-> ZScore(total_assets, working_capital, retained_earnings,
                                   ebit, market_cap, total_liabilities, total_revenue)]

RatioKeys == {"p_e_ratio", "p_b_ratio", "return_on_equity_percent", "altman_z_score"}

UnexpectedError_Propagates(exc) == [raised |-> exc]

\* except Exception as e: return {"error": f"An unexpected error occurred ..."}
UnexpectedError(exc) ==
    [error |-> <<"An unexpected error occurred during analysis", exc>>]

\* calculate_financial_ratios from the first line after the lookups to its
\* return: the mapping, or the handler's error object when a division raised
TryComputeRatios(balance_sheet, income_statement, market_cap) ==
    LET r == ComputeRatios(balance_sheet, income_statement, market_cap)
    IN  IF \E k \in RatioKeys : r[k] = ZeroDivisionError
        THEN UnexpectedError("division by zero")
        ELSE r

(***************************************************************************)
(* The ratio computation on its own: inputs drawn from the line items the  *)
(* provider's statements carry under their alternate names                 *)
(***************************************************************************)

\* the JSON object holding the pairs of S (one pair per key)
FromPairs(S) ==
    [k \in {p[1] : p \in S} |-> (CHOOSE p \in S : p[1] = k)[2]]

TotalAssetsInputs ==
    { {}, {<<"TotalAssets", <<100>>>>}, {<<"TotalAssets", <<0>>>>},
      {<<"TotalAssets", <<-100>>>>},
      {<<"Total Assets", None>>, <<"TotalAssets", <<100>>>>} }
BookValueInputs ==
    { {}, {<<"StockholdersEquity", <<30>>>>}, {<<"StockholdersEquity", <<0>>>>} }
WorkingCapitalInputs ==
    { {}, {<<"WorkingCapital", <<20>>>>} }
CurrentInputs ==
    { {}, {<<"CurrentAssets", <<50>>>>, <<"CurrentLiabilities", <<30>>>>},
      {<<"CurrentAssets", <<50>>>>} }
RetainedEarningsInputs ==
    { {}, {<<"RetainedEarnings", <<10>>>>} }
TotalLiabilitiesInputs ==
    { {}, {<<"TotalLiabilitiesNetMinorityInterest", <<40>>>>} }

BalanceSheets ==
    { FromPairs(ta \cup bv \cup wc \cup cu \cup re \cup tl) :
        ta \in TotalAssetsInputs, bv \in BookValueInputs, wc \in WorkingCapitalInputs,
        cu \in CurrentInputs, re \in RetainedEarningsInputs,
        tl \in TotalLiabilitiesInputs }

NetIncomeInputs ==
    { {}, {<<"NetIncome", <<5>>>>}, {<<"NetIncome", <<0>>>>}, {<<"NetIncome", None>>},
      {<<"Net Income", <<7>>>>, <<"NetIncome", <<5>>>>} }
EbitInputs ==
    { {}, {<<"EBIT", <<8>>>>}, {<<"EBIT", <<0>>>>}, {<<"Operating Income", <<9>>>>} }
InterestTaxInputs ==
    { {}, {<<"InterestExpense", <<-2>>>>, <<"TaxProvision", <<1>>>>} }
TotalRevenueInputs ==
    { {}, {<<"TotalRevenue", <<50>>>>} }

IncomeStatements ==
    { FromPairs(ni \cup eb \cup it \cup tr) :
        ni \in NetIncomeInputs, eb \in EbitInputs, it \in InterestTaxInputs,
        tr \in TotalRevenueInputs }

\* stock.info.get('marketCap', 0)
MarketCaps == {0, 60}

NotCalled == [called |-> FALSE]

InitRatios ==
    /\ latest \in [balance_sheet : BalanceSheets, income_statement : IncomeStatements,
                    market_cap : MarketCaps]
    /\ ratios = NotCalled
    /\ statements = EmptyBag
    /\ fetched = NotCalled
    /\ analysis = NotCalled
    /\ ohlcv = EmptyBag
    /\ req = <<>>
    /\ earnings = NotCalled

\* calculate_financial_ratios on the two latest statements and the market cap
Calculate ==
    /\ ratios = NotCalled
    /\ ratios' = TryComputeRatios(latest.balance_sheet, latest.income_statement,
                                  latest.market_cap)
    /\ UNCHANGED <<statements, fetched, analysis, ohlcv, req, latest, earnings>>

(***************************************************************************)
(* Store: src/src/db/models.py                                             *)
(***************************************************************************)

\* UniqueConstraint('ticker', 'statement_type', 'period')
StatementKey(row) == <<row.ticker, row.statement_type, row.period>>

\* the INSERTs of a flush are refused when they would leave two rows of
\* financial_statements with one (ticker, statement_type, period)
StatementsIntegrityError(table, new) ==
    \/ \E n \in new : \E row \in BagToSet(table) : StatementKey(row) = StatementKey(n)
    \/ \E n, m \in new : n # m /\ StatementKey(n) = StatementKey(m)

(***************************************************************************)
(* Statement ingestion: fetch_and_store_statements                          *)
(***************************************************************************)
MaxPeriods == 2
Periods == 1 .. MaxPeriods

Tickers == {"aapl", "AAPL", "msft"}

StatementTypes == {"income_statement", "balance_sheet", "cash_flow"}

\* a cell of a provider frame: a NumPy number or NaN
Number(v) == [nan |-> FALSE, v |-> v]
NaN == [nan |-> TRUE, v |-> 0]

\* the column of the provider's frame for one statement type and period
ProviderColumn(statement_type, period) ==
    CASE statement_type = "balance_sheet" ->
           FromPairs({<<"TotalAssets", Number(100 * period)>>,
                      <<"StockholdersEquity", Number(30)>>,
                      <<"RetainedEarnings", Number(10)>>,
                      <<"TotalLiabilitiesNetMinorityInterest", Number(40)>>,
                      <<"CurrentAssets", NaN>>})
      [] statement_type = "income_statement" ->
           FromPairs({<<"NetIncome", Number(5 * period)>>, <<"EBIT", NaN>>,
                      <<"InterestExpense", Number(-2)>>,
                      <<"TaxProvision", Number(1)>>,
                      <<"TotalRevenue", Number(50)>>})
      [] OTHER ->
           FromPairs({<<"FreeCashFlow", Number(period)>>})

\* json.loads(statement_data.to_json()): numbers stay, NaN becomes null
record_data(statement_data) ==
    [k \in DOMAIN statement_data |->
        IF statement_data[k].nan THEN None ELSE <<statement_data[k].v>>]

\* record_data of every column the provider can report
StatementData ==
    [statement_type \in StatementTypes, period \in Periods |->
        record_data(ProviderColumn(statement_type, period))]

\* what the provider holds for a ticker: the periods lo .. hi it reports, and
\* per statement type whether its frame has them (FALSE: the frame is empty)
ProviderStatements ==
    { [statement_type \in StatementTypes |->
          IF statement_type \in filled THEN window ELSE {}] :
        window \in {lo .. hi : lo \in Periods, hi \in Periods},
        filled \in SUBSET StatementTypes }

\* models.FinancialStatement(ticker=..., statement_type=..., period=..., data=...)
\* for every column of every non-empty frame
NewRecords(ticker, statement_map) ==
    UNION { { [ticker |-> Upper(ticker), statement_type |-> statement_type,
               period |-> period,
               data |-> StatementData[statement_type, period]] :
                period \in statement_map[statement_type] } :
            statement_type \in StatementTypes }

\* db.merge(db_record) of an object whose primary key is None: there is no
\* identity to look up, so a new instance is added to the session
merge(session_new, db_record) == session_new \cup {db_record}

RECURSIVE MergeAll(_, _)
MergeAll(session_new, records) ==
    IF records = {} THEN session_new
    ELSE LET r == CHOOSE x \in records : TRUE
         IN  MergeAll(merge(session_new, r), records \ {r})

CommitsIssued_OnlyWhenNew(new_records) == IF new_records = {} THEN 0 ELSE 1

\* db.commit() is the statement after the loops, whatever new_records holds
CommitsIssued(new_records) == 1

\* fetch_and_store_statements(db, ticker) with the provider holding
\* statement_map: the merges, the commit and the message; when the provider
\* does not answer, the exception leaves the function before any of them
FetchAndStore(ticker, statement_map, provider_ok) ==
    LET new_records == IF provider_ok THEN NewRecords(ticker, statement_map) ELSE {}
        session_new == MergeAll({}, new_records)
        commits     == IF provider_ok THEN CommitsIssued(new_records) ELSE 0
        failed      == commits > 0 /\ StatementsIntegrityError(statements, session_new)
        written     == IF commits > 0 /\ ~failed THEN session_new ELSE {}
    IN  /\ statements' = statements (+) SetToBag(written)
        /\ fetched' = [called |-> TRUE,
                       ticker |-> ticker,
                       outcome |-> IF ~provider_ok THEN "ProviderError"
                                   ELSE IF failed THEN "IntegrityError"
                                   ELSE "returned",
                       message |-> IF provider_ok /\ ~failed
                                   THEN <<Cardinality(new_records)>> ELSE None,
                       commits |-> commits,
                       writes |-> Cardinality(written),
                       fetched_keys |-> Cardinality(new_records),
                       stored_before |->
                           Cardinality({r \in new_records :
                               \E row \in BagToSet(statements) :
                                   StatementKey(row) = StatementKey(r)})]
        /\ analysis' = NotCalled
        /\ UNCHANGED <<ohlcv, req, latest, ratios, earnings>>

(***************************************************************************)
(* Ratio calculator on the store: get_financial_data and the handlers      *)
(***************************************************************************)

\* .filter(ticker == ticker.upper(), statement_type == ...)
\* .order_by(period.desc()).first(): the row, or None
LatestRecord(table, ticker, statement_type) ==
    LET rows == {row \in BagToSet(table) :
                    row.ticker = Upper(ticker) /\ row.statement_type = statement_type}
    IN  IF rows = {} THEN None
        ELSE CHOOSE row \in rows : \A other \in rows : other.period <= row.period

\* except ValueError as ve: return {"error": str(ve)}
NotFoundError(ticker) ==
    [error |-> <<"Financial data not found. Please fetch it first.", ticker>>]

\* what the market-data provider answers to get_market_cap
MarketCapAnswers ==
    {[raises |-> FALSE, market_cap |-> m] : m \in MarketCaps} \cup
    {[raises |-> TRUE, market_cap |-> 0]}

\* calculate_financial_ratios(db, ticker): db_ok tells whether the queries of
\* get_financial_data go through, answer is what get_market_cap meets
calculate_financial_ratios(table, ticker, db_ok, answer) ==
    IF ~db_ok THEN UnexpectedError("OperationalError")
    ELSE LET balance_sheet_record == LatestRecord(table, ticker, "balance_sheet")
             income_statement_record == LatestRecord(table, ticker, "income_statement")
         IN  IF balance_sheet_record = None \/ income_statement_record = None
             THEN NotFoundError(ticker)
             ELSE IF answer.raises THEN UnexpectedError("ConnectionError")
             ELSE TryComputeRatios(balance_sheet_record.data,
                                   income_statement_record.data, answer.market_cap)

Analyze(ticker, db_ok, answer) ==
    /\ analysis' = [called |-> TRUE, ticker |-> ticker, db_ok |-> db_ok,
                    answer |-> answer,
                    result |-> calculate_financial_ratios(statements, ticker,
                                                          db_ok, answer)]
    /\ fetched' = NotCalled
    /\ UNCHANGED <<statements, ohlcv, req, latest, ratios, earnings>>

\* the tickers whose statements are ingested
FetchedTickers == {"aapl"}

Init ==
    /\ statements = EmptyBag
    /\ fetched = NotCalled
    /\ analysis = NotCalled
    /\ ohlcv = EmptyBag
    /\ req = <<>>
    /\ latest = NotCalled
    /\ ratios = NotCalled
    /\ earnings = NotCalled

Next ==
    \/ \E ticker \in FetchedTickers, statement_map \in ProviderStatements,
          provider_ok \in BOOLEAN :
          FetchAndStore(ticker, statement_map, provider_ok)
    \/ \E ticker \in Tickers, db_ok \in BOOLEAN, answer \in MarketCapAnswers :
          Analyze(ticker, db_ok, answer)

Spec == Init /\ [][Next]_vars

SpecRatios == InitRatios /\ [][Calculate]_vars

(***************************************************************************)
(* Price history: get_ohlcv and the endpoint get_ohlcv_data                *)
(***************************************************************************)
MaxDates == 2
Dates == 1 .. MaxDates

\* the HTTP workers that serve requests in parallel
Requests == {"w1", "w2"}

OhlcvTickers == {"aapl"}

\* UniqueConstraint('ticker', 'date')
OhlcvKey(row) == <<row.ticker, row.date>>

\* number of rows of ohlcv_data with the key
RowsWithKey(table, key) ==
    BagCardinality([row \in {x \in BagToSet(table) : OhlcvKey(x) = key} |-> table[row]])

OhlcvIntegrityError_NotNullOnly(table, new) ==
    \E n \in new : None \in {n.open, n.high, n.low, n.close, n.volume}

\* the INSERTs of a flush are refused when a nullable=False column is None or
\* when they would leave two rows of ohlcv_data with one (ticker, date)
OhlcvIntegrityError(table, new) ==
    \/ \E n \in new : None \in {n.open, n.high, n.low, n.close, n.volume}
    \/ \E n \in new : \E row \in BagToSet(table) : OhlcvKey(row) = OhlcvKey(n)
    \/ \E n, m \in new : n # m /\ OhlcvKey(n) = OhlcvKey(m)

\* the provider's bar for a date; prices are adjusted from one fetch to a
\* later one (revision), and the bar of the running day may lack its close
ProviderBar(revision, date, partial) ==
    [Open |-> Number(100 * revision + date), High |-> Number(100 * revision + date + 2),
     Low |-> Number(100 * revision + date - 2),
     Close |-> IF partial THEN NaN ELSE Number(100 * revision + date + 1),
     Volume |-> Number(1000 * date)]

\* stock.history(period=period): a daily series, one bar per date
Histories ==
    { [date \in window |-> ProviderBar(revision, date, partial /\ date = MaxDates)] :
        window \in {lo .. hi : lo \in Dates, hi \in Dates},
        revision \in {1, 2}, partial \in BOOLEAN }

\* convert_numpy_types(value): None for NaN, the Python number otherwise
convert_numpy_types(value) == IF value.nan THEN None ELSE <<value.v>>

\* models.OhlcvData(ticker=ticker_upper, date=record_date, open=..., ...)
OhlcvRecord(ticker, record_date, row) ==
    [ticker |-> Upper(ticker), date |-> record_date,
     open |-> convert_numpy_types(row.Open), high |-> convert_numpy_types(row.High),
     low |-> convert_numpy_types(row.Low), close |-> convert_numpy_types(row.Close),
     volume |-> convert_numpy_types(row.Volume)]

existing_record_RawTicker(table, ticker, record_date) ==
    \E row \in BagToSet(table) : row.ticker = ticker /\ row.date = record_date

\* db.query(OhlcvData).filter(ticker == ticker.upper(), date == record_date).first()
existing_record(table, ticker, record_date) ==
    \E row \in BagToSet(table) : row.ticker = Upper(ticker) /\ row.date = record_date

Idle ==
    [pc |-> "idle", ticker |-> "", hist |-> <<>>, todo |-> {}, session_new |-> {},
     records_processed |-> 0, records_skipped |-> 0, commits |-> 0,
     rolled_back |-> FALSE, error |-> "", result |-> None, status |-> 0]

except_Swallowed(request, error) ==
    [request EXCEPT !.pc = "returned", !.todo = {}, !.session_new = {},
                    !.rolled_back = TRUE, !.error = error,
                    !.result = <<request.hist>>, !.status = 200]

\* except Exception as e: db.rollback(); raise e -- and the endpoint's
\* except Exception: raise HTTPException(status_code=404, ...)
except(request, error) ==
    [request EXCEPT !.pc = "raised", !.todo = {}, !.session_new = {},
                    !.rolled_back = TRUE, !.error = error, !.status = 404]

\* get_ohlcv(ticker, period, db) up to the loop: the fetch, and the whole call
\* when there is no session or the series is empty
Call(r, ticker, hist, db) ==
    /\ req[r].pc = "idle"
    /\ req' = [req EXCEPT ![r] =
                 IF db /\ DOMAIN hist # {}
                 THEN [Idle EXCEPT !.pc = "loop", !.ticker = ticker, !.hist = hist,
                                   !.todo = DOMAIN hist]
                 ELSE [Idle EXCEPT !.pc = "returned", !.ticker = ticker,
                                   !.hist = hist, !.result = <<hist>>,
                                   !.status = 200]]
    /\ UNCHANGED <<statements, fetched, analysis, ohlcv, latest, ratios, earnings>>

\* one iteration of `for date, row in hist.iterrows()`
Iterate(r) ==
    /\ req[r].pc = "loop"
    /\ LET request == req[r]
           record_date == CHOOSE d \in request.todo : \A e \in request.todo : d <= e
           rest == request.todo \ {record_date}
           after == IF rest = {} THEN "commit" ELSE "loop"
       IN  req' = [req EXCEPT ![r] =
             IF existing_record(ohlcv, request.ticker, record_date)
             THEN [request EXCEPT !.records_skipped = @ + 1, !.todo = rest,
                                  !.pc = after]
             ELSE [request EXCEPT
                     !.session_new = @ \cup {OhlcvRecord(request.ticker, record_date,
                                                          request.hist[record_date])},
                     !.records_processed = @ + 1, !.todo = rest, !.pc = after]]
    /\ UNCHANGED <<statements, fetched, analysis, ohlcv, latest, ratios, earnings>>

\* db.commit(), then `return hist` and the endpoint's 200; or the handlers
Commit(r) ==
    /\ req[r].pc = "commit"
    /\ LET request == [req[r] EXCEPT !.commits = @ + 1]
       IN  IF OhlcvIntegrityError(ohlcv, request.session_new)
           THEN /\ req' = [req EXCEPT ![r] = except(request, "IntegrityError")]
                /\ ohlcv' = ohlcv
           ELSE /\ req' = [req EXCEPT ![r] =
                            [request EXCEPT !.pc = "returned", !.session_new = {},
                                            !.result = <<request.hist>>,
                                            !.status = 200]]
                /\ ohlcv' = ohlcv (+) SetToBag(request.session_new)
    /\ UNCHANGED <<statements, fetched, analysis, latest, ratios, earnings>>

\* a query of the loop or the commit fails in the database (connection lost)
DatabaseFails(r) ==
    /\ req[r].pc \in {"loop", "commit"}
    /\ req' = [req EXCEPT ![r] =
                 except([req[r] EXCEPT !.commits =
                            IF req[r].pc = "commit" THEN @ + 1 ELSE @],
                        "OperationalError")]
    /\ UNCHANGED <<statements, fetched, analysis, ohlcv, latest, ratios, earnings>>

\* the response is sent and the worker takes the next request
Respond(r) ==
    /\ req[r].pc \in {"returned", "raised"}
    /\ req' = [req EXCEPT ![r] = Idle]
    /\ UNCHANGED <<statements, fetched, analysis, ohlcv, latest, ratios, earnings>>

InitOhlcv ==
    /\ ohlcv = EmptyBag
    /\ req = [r \in Requests |-> Idle]
    /\ statements = EmptyBag
    /\ fetched = NotCalled
    /\ analysis = NotCalled
    /\ latest = NotCalled
    /\ ratios = NotCalled
    /\ earnings = NotCalled

NextOhlcv ==
    \/ \E r \in Requests, ticker \in OhlcvTickers, hist \in Histories, db \in BOOLEAN :
          Call(r, ticker, hist, db)
    \/ \E r \in Requests : Iterate(r)
    \/ \E r \in Requests : Commit(r)
    \/ \E r \in Requests : DatabaseFails(r)
    \/ \E r \in Requests : Respond(r)

SpecOhlcv == InitOhlcv /\ [][NextOhlcv]_vars

(***************************************************************************)
(* Claims on the price history                                             *)
(***************************************************************************)

Stored(table, ticker, date) ==
    \E row \in BagToSet(table) : OhlcvKey(row) = <<Upper(ticker), date>>

\* C2: a get_ohlcv call with a session skips every bar whose (ticker, date) is
\* stored and adds every other bar to the batch; it writes nothing before its
\* commit; the commit that completes the call leaves every stored row as it
\* was, inserts exactly the bars whose (ticker, date) was not stored, and is
\* the only commit of the call.
C2_SkipExistingInsertNew ==
    [][\A r \in Requests :
        (req'[r] # req[r] /\ req[r].pc \in {"loop", "commit"}) =>
            LET request == req[r]
                after   == req'[r]
                bar(d)  == OhlcvRecord(request.ticker, d, request.hist[d])
            IN  IF after.pc = "returned"
                THEN /\ \A row \in BagToSet(ohlcv) :
                            CopiesIn(row, ohlcv') = CopiesIn(row, ohlcv)
                     /\ ohlcv' = ohlcv (+) SetToBag(
                            {bar(d) : d \in {e \in DOMAIN request.hist :
                                                ~Stored(ohlcv, request.ticker, e)}})
                     /\ after.commits = 1
                ELSE /\ ohlcv' = ohlcv
                     /\ \A d \in request.todo \ after.todo :
                            after.pc \in {"loop", "commit"} =>
                                IF Stored(ohlcv, request.ticker, d)
                                THEN /\ after.session_new = request.session_new
                                     /\ after.records_skipped = request.records_skipped + 1
                                ELSE /\ after.session_new =
                                            request.session_new \cup {bar(d)}
                                     /\ after.records_processed =
                                            request.records_processed + 1
      ]_vars

C2_Witness ==
    \E r \in Requests :
        /\ req[r].pc = "returned" /\ req[r].commits = 1
        /\ req[r].records_skipped > 0 /\ req[r].records_processed > 0
        /\ \E d \in DOMAIN req[r].hist : \E row \in BagToSet(ohlcv) :
              /\ OhlcvKey(row) = <<Upper(req[r].ticker), d>>
              /\ row # OhlcvRecord(req[r].ticker, d, req[r].hist[d])
        /\ \A d \in DOMAIN req[r].hist : Stored(ohlcv, req[r].ticker, d)

\* C3: in every reachable state, also under interleaved get_ohlcv requests for
\* one ticker and overlapping dates, the store holds at most one committed
\* OhlcvData row per (ticker, date).
C3_OneRowPerTickerDate ==
    \A row \in BagToSet(ohlcv) :
        RowsWithKey(ohlcv, OhlcvKey(row)) <= 1

C3_Witness ==
    \E r1, r2 \in Requests :
        /\ r1 # r2
        /\ req[r1].pc = "returned" /\ req[r1].records_processed > 0
        /\ req[r1].records_skipped = 0
        /\ req[r2].pc = "raised" /\ req[r2].error = "IntegrityError"
        /\ req[r2].records_processed > 0 /\ req[r2].records_skipped = 0
        /\ \A d \in DOMAIN req[r2].hist : ~req[r2].hist[d].Close.nan
        /\ DOMAIN req[r1].hist \cap DOMAIN req[r2].hist # {}

\* C9: when a database operation of the upsert loop or the commit fails, the
\* transaction is rolled back and the exception re-raised: the failing step
\* leaves the committed store as it was, the batch is discarded and the series
\* is not returned.
C9_RollbackAndReraise ==
    [][\A r \in Requests :
        (req[r].error = "" /\ req'[r].error # "") =>
            /\ ohlcv' = ohlcv
            /\ req'[r].pc = "raised"
            /\ req'[r].rolled_back
            /\ req'[r].session_new = {}
            /\ req'[r].result = None
      ]_vars

C9_Witness ==
    \E r \in Requests :
        /\ req[r].pc = "raised" /\ req[r].rolled_back
        /\ req[r].records_processed > 0 /\ req[r].commits = 1
        /\ \A d \in DOMAIN req[r].hist : ~Stored(ohlcv, req[r].ticker, d)

(***************************************************************************)
(* Earnings calendar: the fetcher and the endpoint get_earnings_data       *)
(***************************************************************************)
Horizons == {"3month", "6month", "12month"}

CalendarRows ==
    { [symbol |-> "AAPL", reportDate |-> 1], [symbol |-> "AAPL", reportDate |-> 2],
      [symbol |-> "MSFT", reportDate |-> 1] }

\* the provider's CSV feed: no line at all, or one or two lines
CalendarFeeds ==
    {<<>>} \cup {<<a>> : a \in CalendarRows} \cup
    {<<a, b>> : a \in CalendarRows, b \in CalendarRows}

\* get_earnings_calendar(ticker, horizon): a dict with the key "error" when
\* the API key is missing or the provider's response is empty, a dict with the
\* key "message" when no line of the feed is the ticker's, and else the list
\* of the ticker's lines
get_earnings_calendar(ticker, horizon, api_key, feed) ==
    LET matching == SelectSeq(feed, LAMBDA line : line.symbol = Upper(ticker))
    IN  IF ~api_key
        THEN [type |-> "dict", value |-> [error |-> "API key not configured"]]
        ELSE IF feed = <<>>
        THEN [type |-> "dict", value |-> [error |-> "No data received"]]
        ELSE IF matching = <<>>
        THEN [type |-> "dict", value |-> [message |-> "No upcoming earnings found"]]
        ELSE [type |-> "list", value |-> matching]

\* key in data: a key of a dict; an element of a list, whose elements are
\* mappings and never the string
In(key, data) ==
    IF data.type = "dict" THEN key \in DOMAIN data.value ELSE FALSE

\* the body of the endpoint's try: what it returns, or the exception it raises
EarningsTry(fetch) ==
    IF fetch.raises
    THEN [raises |-> TRUE, exception |-> "ConnectionError", status_code |-> 0,
          data |-> None]
    ELSE IF In("error", fetch.data)
    THEN [raises |-> TRUE, exception |-> "HTTPException", status_code |-> 429,
          data |-> None]
    ELSE [raises |-> FALSE, exception |-> "", status_code |-> 200,
          data |-> <<fetch.data>>]

\* get_earnings_data: the try and its `except Exception as e: raise
\* HTTPException(status_code=500, detail=str(e))`, which also catches the
\* HTTPException raised inside the try
get_earnings_data(fetch) ==
    LET tried == EarningsTry(fetch)
    IN  IF tried.raises
        THEN [status_code |-> 500, body |-> None, caught |-> tried.exception]
        ELSE [status_code |-> 200, body |-> tried.data, caught |-> ""]

\* GET /data/earnings/{ticker}?horizon=...: the fetcher answers or fails on
\* the network, and the endpoint responds
GetEarnings(ticker, horizon, api_key, feed, network_ok) ==
    LET fetch == IF network_ok
                 THEN [raises |-> FALSE,
                       data |-> get_earnings_calendar(ticker, horizon, api_key, feed)]
                 ELSE [raises |-> TRUE, data |-> None]
    IN  /\ earnings' = [called |-> TRUE, ticker |-> ticker, horizon |-> horizon,
                        api_key |-> api_key, feed |-> feed,
                        fetch |-> fetch, response |-> get_earnings_data(fetch)]
        /\ UNCHANGED <<statements, fetched, analysis, ohlcv, req, latest, ratios>>

InitEarnings ==
    /\ earnings = NotCalled
    /\ statements = EmptyBag
    /\ fetched = NotCalled
    /\ analysis = NotCalled
    /\ ohlcv = EmptyBag
    /\ req = <<>>
    /\ latest = NotCalled
    /\ ratios = NotCalled

NextEarnings ==
    \E ticker \in Tickers, horizon \in Horizons, api_key \in BOOLEAN,
       feed \in CalendarFeeds, network_ok \in BOOLEAN :
        GetEarnings(ticker, horizon, api_key, feed, network_ok)

SpecEarnings == InitEarnings /\ [][NextEarnings]_vars

FetcherReportsError ==
    ~earnings.fetch.raises /\ In("error", earnings.fetch.data)

\* C8 as stated: the earnings endpoint responds 429 whenever the fetcher's
\* result contains the key "error", 200 with the fetcher's result when it does
\* not, and 500 only when an unexpected exception is raised.
C8_StatusByFetcherResult ==
    earnings.called =>
        /\ FetcherReportsError => earnings.response.status_code = 429
        /\ (~earnings.fetch.raises /\ ~In("error", earnings.fetch.data)) =>
              /\ earnings.response.status_code = 200
              /\ earnings.response.body = <<earnings.fetch.data>>
        /\ earnings.response.status_code = 500 => earnings.fetch.raises

Calculated == ratios # NotCalled

net_income == safe_get(latest.income_statement, NetIncomeKeys)
book_value == safe_get(latest.balance_sheet, BookValueKeys)
total_assets == safe_get(latest.balance_sheet, TotalAssetsKeys)

ExampleBalanceSheet ==
    FromPairs({<<"TotalAssets", <<100>>>>, <<"WorkingCapital", <<20>>>>,
               <<"RetainedEarnings", <<10>>>>,
               <<"TotalLiabilitiesNetMinorityInterest", <<40>>>>,
               <<"StockholdersEquity", <<30>>>>})
ExampleIncomeStatement ==
    FromPairs({<<"NetIncome", <<5>>>>, <<"EBIT", <<8>>>>, <<"TotalRevenue", <<50>>>>})

IsExample ==
    /\ latest.balance_sheet = ExampleBalanceSheet
    /\ latest.income_statement = ExampleIncomeStatement
    /\ latest.market_cap = 60

\* C4 as stated: on the example statements with market cap 60 the calculator
\* returns P/E 12, P/B 2, ROE% 16.67 (rounded) and Altman Z 2.044, term A being
\* the WorkingCapital item 20 over total assets 100.
C4_ExampleZ2044 ==
    (Calculated /\ IsExample) =>
        /\ DOMAIN ratios = RatioKeys
        /\ ratios.p_e_ratio = <<12, 1>>
        /\ ratios.p_b_ratio = <<2, 1>>
        /\ RoundsTo(ratios.return_on_equity_percent, 1667, 100)
        /\ ratios.altman_z_score = Rat(2044, 1000)

\* C4 amended: on the example statements with market cap 60 the calculator
\* returns P/E 12, P/B 2, ROE% 16.67 (rounded) and Altman Z 1.804: the
\* WorkingCapital item is never read, working capital is current assets minus
\* current liabilities, both absent here, so term A is 0 and not 0.2.
C4_ExampleZ1804 ==
    (Calculated /\ IsExample) =>
        /\ DOMAIN ratios = RatioKeys
        /\ ratios.p_e_ratio = <<12, 1>>
        /\ ratios.p_b_ratio = <<2, 1>>
        /\ RoundsTo(ratios.return_on_equity_percent, 1667, 100)
        /\ ratios.altman_z_score = Rat(1804, 1000)

C4_Witness == Calculated /\ IsExample /\ DOMAIN ratios = RatioKeys

\* C5: when net_income is zero or no net-income alias is present, P/E and ROE
\* are None; when market_cap is 0, P/E and P/B are None; in both cases the four
\* ratios are returned, not an error object, and nothing divides by zero.
C5_NullPolicy ==
    Calculated =>
        /\ net_income = 0 =>
              /\ DOMAIN ratios = RatioKeys
              /\ ratios.p_e_ratio = None
              /\ ratios.return_on_equity_percent = None
        /\ latest.market_cap = 0 =>
              /\ DOMAIN ratios = RatioKeys
              /\ ratios.p_e_ratio = None
              /\ ratios.p_b_ratio = None

C5_Witness ==
    /\ Calculated /\ DOMAIN ratios = RatioKeys
    /\ latest.market_cap = 0 /\ net_income # 0 /\ book_value # 0
    /\ ratios.p_e_ratio = None /\ ratios.return_on_equity_percent # None

\* C6: when total_assets is absent, zero or negative the Altman Z-score is None
\* whatever the other line items and the market cap are, and the result is
\* still the four ratios, not an error object.
C6_NoAssetsNoZ ==
    (Calculated /\ total_assets <= 0) =>
        /\ DOMAIN ratios = RatioKeys
        /\ ratios.altman_z_score = None

C6_Witness ==
    /\ Calculated /\ DOMAIN ratios = RatioKeys
    /\ total_assets < 0 /\ latest.market_cap # 0 /\ net_income # 0 /\ book_value # 0
    /\ ratios.altman_z_score = None /\ ratios.p_e_ratio # None

\* the value of the first key of `keys`, in their order, that the statement
\* carries with a non-null value; 0 when it carries none
FirstAlias(series, keys) ==
    LET present == {i \in 1 .. Len(keys) :
                       keys[i] \in DOMAIN series /\ series[keys[i]] # None}
    IN  IF present = {} THEN 0
        ELSE series[keys[CHOOSE i \in present : \A j \in present : i <= j]][1]

NoEbitAlias ==
    \A i \in 1 .. Len(EbitKeys) :
        \/ EbitKeys[i] \notin DOMAIN latest.income_statement
        \/ latest.income_statement[EbitKeys[i]] = None

\* C11 as stated: every line item is the first alias of its ordered list whose
\* value is present and non-null, and whenever no EBIT alias is present the
\* EBIT of the Z-score is net_income + |interest_expense| + tax_provision, for
\* every value of net_income, zero and missing included.
C11_FirstAliasAndDerivedEbit ==
    (Calculated /\ DOMAIN ratios = RatioKeys) =>
        LET bs == latest.balance_sheet
            is == latest.income_statement
            ni == FirstAlias(is, NetIncomeKeys)
            bv == FirstAlias(bs, BookValueKeys)
            ta == FirstAlias(bs, TotalAssetsKeys)
            wc == WorkingCapital(FirstAlias(bs, CurrentAssetsKeys),
                                 FirstAlias(bs, CurrentLiabilitiesKeys))
            derived == ni + Abs(FirstAlias(is, InterestExpenseKeys))
                          + FirstAlias(is, TaxProvisionKeys)
        IN  /\ ratios.p_e_ratio = PERatio(latest.market_cap, ni)
            /\ ratios.p_b_ratio = PBRatio(latest.market_cap, bv)
            /\ ratios.return_on_equity_percent = ROE(ni, bv)
            /\ (NoEbitAlias /\ ta > 0) =>
                  ratios.altman_z_score =
                      ZScore(ta, wc, FirstAlias(bs, RetainedEarningsKeys), derived,
                             latest.market_cap, FirstAlias(bs, TotalLiabilitiesKeys),
                             FirstAlias(is, TotalRevenueKeys))

(***************************************************************************)
(* Claims on statement ingestion and on the calculator over the store      *)
(***************************************************************************)

\* C1 as stated: a run of fetch_and_store_statements in which the provider
\* answers and every (ticker, statement_type, period) it fetches is already
\* stored performs zero writes, succeeds and reports zero new records in its
\* message.
C1_SecondRunIsNoOp ==
    (/\ fetched.called /\ fetched.outcome # "ProviderError"
     /\ fetched.stored_before = fetched.fetched_keys) =>
        /\ fetched.outcome = "returned"
        /\ fetched.writes = 0
        /\ fetched.message = <<0>>

\* C10 as stated: a commit is issued only if at least one new
\* FinancialStatement row was created by the call.
C10_CommitOnlyIfNew ==
    (fetched.called /\ fetched.commits > 0) => fetched.writes >= 1

\* C10 amended: every call of fetch_and_store_statements that gets the
\* provider's frames issues exactly one commit, also when the provider returns
\* no statements or only periods that are already stored.
C10_CommitEveryCall ==
    (fetched.called /\ fetched.outcome # "ProviderError") => fetched.commits = 1

C10_Witness ==
    /\ fetched.called /\ fetched.outcome = "returned"
    /\ fetched.fetched_keys = 0
    /\ fetched.commits = 1 /\ fetched.writes = 0

HasRow(ticker, statement_type) ==
    \E row \in BagToSet(statements) :
        row.ticker = Upper(ticker) /\ row.statement_type = statement_type

RowsMissing ==
    \/ ~HasRow(analysis.ticker, "balance_sheet")
    \/ ~HasRow(analysis.ticker, "income_statement")

\* C7: calculate_financial_ratios never raises.  It returns {error} when the
\* ticker has no balance_sheet row or no income_statement row, {error} when a
\* step of the lookup or of the computation raises, and otherwise exactly the
\* four keys p_e_ratio, p_b_ratio, return_on_equity_percent, altman_z_score.
C7_AlwaysAMapping ==
    analysis.called =>
        LET result == analysis.result
            raised == ~analysis.db_ok \/ analysis.answer.raises
        IN  /\ DOMAIN result = {"error"} \/ DOMAIN result = RatioKeys
            /\ RowsMissing => DOMAIN result = {"error"}
            /\ raised => DOMAIN result = {"error"}
            /\ (~RowsMissing /\ ~raised) => DOMAIN result = RatioKeys

C7_Witness ==
    /\ analysis.called /\ ~RowsMissing
    /\ analysis.db_ok /\ analysis.answer.raises
    /\ DOMAIN analysis.result = {"error"}

====
